---- MODULE Spec2Model ----
(***************************************************************************)
(* A state-machine model of jax_unirep/evotuning.py: the pair encoder      *)
(* (evotuning_pairs, input_output_pairs, length_batch_input_outputs), the  *)
(* weighted loss (avg_loss), the training loop (fit), the cross-validated  *)
(* objective (objective) and the hyperparameter search (evotune).          *)
(*                                                                         *)
(* Numeric tensors are modelled symbolically.  A parameter set is the      *)
(* record [leaves, cellOK, base, hist]: the number of leaves, whether the  *)
(* first leaf passes validate_mLSTM1900_params, the identity of the        *)
(* initial weights, and the sequence of optimizer updates applied to them  *)
(* (each update is the step number handed to the optimizer, the learning   *)
(* rate and the (x, y) batch the gradient was taken on).  Two parameter    *)
(* sets are equal exactly when the same updates were applied in the same   *)
(* order to the same initial weights.  Floating-point values are exact     *)
(* rationals [num, den] in lowest terms.                                   *)
(***************************************************************************)
EXTENDS Integers, Sequences, FiniteSets, TLC

VARIABLES
    pc,        \* control position of the single thread
    api,       \* the call the user made: [fn |-> ..., and its arguments]
    fitArgs,   \* arguments of the fit invocation the user made
    fitLoc,    \* the fit invocation the user made: its position, locals and effects
    objLoc,    \* locals of the active objective invocation
    evoLoc,    \* locals of the active evotune invocation
    fitLog,    \* the fit invocations made by objective and evotune, in call order
    fnArgs,    \* arguments of the avg_loss or input_output_pairs call the user made
    ret,       \* value returned to the user (None until then)
    exc        \* exception that reached the user ("none" until then)

vars == <<pc, api, fitArgs, fitLoc, objLoc, evoLoc, fitLog, fnArgs, ret, exc>>

---------------------------------------------------------------------------
(* Bounds of the model *)

\* longest protein sequence (the shortest has two symbols: one input
\* position and one target position)
MaxLen == 3
\* most sequences in a corpus handed to fit or avg_loss
MaxSeqs == 2
\* most sequences in one input_output_pairs call
MaxBatch == 3
\* largest epoch count n handed to fit directly
MaxEpochs == 3
\* number of distinct values of the stand-in loss
LossLevels == 5

\* len(model_layers)
NumLayers == 4
\* fit's default steps_per_print
DefaultStepsPerPrint == 200

\* Python's None and a present value; optional values are None or Some(v)
None == <<>>
Some(v) == <<v>>

---------------------------------------------------------------------------
(* Exact rationals for float results *)

RECURSIVE GCD(_, _)
GCD(a, b) == IF b = 0 THEN a ELSE GCD(b, a % b)

Rat(n, d) == LET g == GCD(n, d) IN [num |-> n \div g, den |-> d \div g]

RatAdd(p, q) == Rat(p.num * q.den + q.num * p.den, p.den * q.den)

RatDivInt(p, k) == Rat(p.num, p.den * k)

RatLeq(p, q) == p.num * q.den <= q.num * p.den

RECURSIVE RatSum(_)
RatSum(s) == IF s = <<>> THEN Rat(0, 1)
             ELSE RatAdd(RatSum(SubSeq(s, 1, Len(s) - 1)), s[Len(s)])

---------------------------------------------------------------------------
(* Sequences and their encoding *)

Alphabet == {"A", "C"}

\* all protein sequences over the symbols in alpha
Proteins(alpha) == UNION {[1..L -> alpha] : L \in 2..MaxLen}

\* the vocabulary encoder of utils: symbol -> index
aa_to_int(a) == IF a = "A" THEN 1 ELSE 2

aa_seq_to_int(s) == [k \in 1..Len(s) |-> aa_to_int(s[k])]

\* row i of the embedding table
embeddings(i) == <<"emb", i>>

\* row i of the identity matrix over the vocabulary
one_hots(i) == [j \in 1..Cardinality(Alphabet) |-> IF j = i THEN 1 ELSE 0]

evotuning_pairs(s) ==
    LET seq_int == aa_seq_to_int(SubSeq(s, 1, Len(s) - 1))
        next_letters_int == aa_seq_to_int(SubSeq(s, 2, Len(s)))
    IN  [x |-> [k \in 1..Len(seq_int) |-> embeddings(seq_int[k])],
         y |-> [k \in 1..Len(next_letters_int) |-> one_hots(next_letters_int[k])]]

\* input_output_pairs without its check of the lengths: a variant that C8
\* must tell from the code
input_output_pairs_Unchecked(sequences) ==
    [raised |-> "none", encoded |-> Len(sequences),
     x |-> [k \in 1..Len(sequences) |-> evotuning_pairs(sequences[k]).x],
     y |-> [k \in 1..Len(sequences) |-> evotuning_pairs(sequences[k]).y]]

\* The result carries `encoded`, the number of evotuning_pairs calls made.
input_output_pairs(sequences) ==
    LET seqlengths == {Len(sequences[k]) : k \in 1..Len(sequences)}
    IN  IF Cardinality(seqlengths) # 1
        THEN [raised |-> "ValueError", encoded |-> 0, x |-> <<>>, y |-> <<>>]
        ELSE [raised |-> "none", encoded |-> Len(sequences),
              x |-> [k \in 1..Len(sequences) |-> evotuning_pairs(sequences[k]).x],
              y |-> [k \in 1..Len(sequences) |-> evotuning_pairs(sequences[k]).y]]

RECURSIVE SortedSeq(_)
SortedSeq(S) == IF S = {} THEN <<>>
                ELSE LET m == CHOOSE v \in S : \A w \in S : v <= w
                     IN  <<m>> \o SortedSeq(S \ {m})

\* utils.batch_sequences: the indices of the sequences of each length, the
\* lengths ascending, the indices of one length in their original order
batch_sequences(seqs) ==
    LET lens == SortedSeq({Len(seqs[k]) : k \in 1..Len(seqs)})
    IN  [j \in 1..Len(lens) |->
            SortedSeq({k \in 1..Len(seqs) : Len(seqs[k]) = lens[j]})]

length_batch_input_outputs(sequences) ==
    LET idxs_batched == batch_sequences(sequences)
        pair(j) == input_output_pairs(
                      [k \in 1..Len(idxs_batched[j]) |-> sequences[idxs_batched[j][k]]])
    IN  [raised |-> IF \E j \in 1..Len(idxs_batched) : pair(j).raised # "none"
                    THEN "ValueError" ELSE "none",
         xs |-> [j \in 1..Len(idxs_batched) |-> pair(j).x],
         ys |-> [j \in 1..Len(idxs_batched) |-> pair(j).y]]

---------------------------------------------------------------------------
(* Parameters, loss and optimizer *)

\* weights of the paper, returned by utils.load_params()
PaperParams == [leaves |-> NumLayers, cellOK |-> TRUE, base |-> "paper", hist |-> <<>>]

\* a digest of a tensor batch
TensorDigest(x) == Len(x) + 2 * Len(x[1]) + x[1][1][2]

\* a digest of a parameter set
ParamDigest(params) ==
    LET h == params.hist
    IN  (IF params.base = "paper" THEN 0 ELSE 1) + 2 * Len(h)
        + (IF h = <<>> THEN 0
           ELSE 3 * h[Len(h)].i + h[Len(h)].lr + TensorDigest(h[Len(h)].x))

\* evotune_loss: some pure function of (params, inputs, targets)
evotune_loss(params, inputs, targets) ==
    1 + ((3 * ParamDigest(params) + TensorDigest(inputs) + Len(targets[1])) % LossLevels)

\* the sum of the bucket losses without their weights: a variant that C7
\* must tell from the code
RECURSIVE SumLoss_Unweighted(_, _, _, _)
SumLoss_Unweighted(params, xs, ys, k) ==
    IF k = 0 THEN 0
    ELSE SumLoss_Unweighted(params, xs, ys, k - 1) + evotune_loss(params, xs[k], ys[k])

\* lines 62-65: sum_loss += evotune_loss(params, x, y) * len(x), over the
\* first k buckets
RECURSIVE SumLoss(_, _, _, _)
SumLoss(params, xs, ys, k) ==
    IF k = 0 THEN 0
    ELSE SumLoss(params, xs, ys, k - 1)
         + evotune_loss(params, xs[k], ys[k]) * Len(xs[k])

avg_loss(sequences, params) ==
    LET b == length_batch_input_outputs(sequences)
        sum_loss == SumLoss(params, b.xs, b.ys, Len(b.xs))
    IN  IF b.raised # "none" THEN [raised |-> b.raised, value |-> None]
        ELSE IF Len(sequences) = 0
        THEN [raised |-> "ZeroDivisionError", value |-> None]
        ELSE [raised |-> "none", value |-> Rat(sum_loss, Len(sequences))]

\* adamW(step_size): init
adamW_init(params, step_size) == [p |-> params, lr |-> step_size]

get_params(state) == state.p

\* adamW(step_size): update(i, g, state); i is the step number the optimizer
\* uses for its bias correction
adamW_update(i, g, state) ==
    [state EXCEPT !.p.hist = Append(@, [i |-> i, lr |-> state.lr, x |-> g.x, y |-> g.y])]

\* grad(evotune_loss)(params, x, y): the gradient at the current parameters
\* is identified by the batch it is taken on
grad_evotune_loss(params, x, y) == [x |-> x, y |-> y]

\* @jit on step: step's arguments are (i, state), whose shapes and types never
\* change, so step is traced once, at its first call.  The free variables x
\* and y of its body are read at that moment and become constants of the
\* compiled function; later calls reuse it.  `trace` is None before the first
\* call and Some of the captured (x, y) after it.
jit_trace(trace, x, y) == IF trace = None THEN Some([x |-> x, y |-> y]) ELSE trace

\* the body of step, run with the x and y of its trace
step(i, state, trace) ==
    LET params == get_params(state)
        g == grad_evotune_loss(params, trace[1].x, trace[1].y)
    IN  adamW_update(i, g, state)

---------------------------------------------------------------------------
(* fit.  An invocation is the record f: its position pc ("check", "batch",  *)
(* "loop", "returned" or "raised"), its locals (params, xs, ys, state, the  *)
(* epoch i, the place b in zip(xs, ys), the trace of the jitted step) and   *)
(* its effects (the dump_params calls, the loss lines logged, and counts of *)
(* the computations done).  Each part of fit's body is an operator from f   *)
(* to the next f.                                                           *)

NoEffects == [batch |-> 0, init |-> 0, update |-> 0, loss |-> 0, dump |-> 0]

\* the invocation at its entry
FitStart ==
    [pc |-> "check", exc |-> "none", params |-> None, xs |-> <<>>, ys |-> <<>>,
     state |-> None, i |-> 0, b |-> 1, trace |-> None, fx |-> NoEffects,
     dumps |-> <<>>, logged |-> <<>>, result |-> None]

FitRaise(f, e) == [f EXCEPT !.pc = "raised", !.exc = e]

\* the check of the leaves without validate_mLSTM1900_params: a variant that
\* C4 must tell from the code
ParamsAccepted_NoShapeCheck(params) == params.leaves = NumLayers

\* lines 214-218: the number of leaves is the number of layers, and
\* validate_mLSTM1900_params accepts the first leaf
ParamsAccepted(params) ==
    /\ params.leaves = NumLayers
    /\ params.cellOK

\* lines 209-218: load the default parameters, check the number of leaves
\* and the shape of the first leaf
fit_check(args, f) ==
    LET params == IF args.params = None THEN PaperParams ELSE args.params[1]
    IN  IF ~ParamsAccepted(params)
        THEN FitRaise(f, "ValueError")
        ELSE [f EXCEPT !.pc = "batch", !.params = params]

\* lines 220-254: batch the sequences by length, build the optimizer and its
\* initial state
fit_batch(args, f) ==
    LET b == length_batch_input_outputs(args.sequences)
    IN  IF b.raised # "none"
        THEN FitRaise(f, b.raised)
        ELSE [f EXCEPT !.pc = "loop", !.xs = b.xs, !.ys = b.ys,
                       !.state = adamW_init(f.params, args.step_size),
                       !.fx.batch = @ + 1, !.fx.init = @ + 1]

\* lines 260-261: one pass of the inner loop, for x, y in zip(xs, ys):
\* state = step(i, state)
fit_step(args, f) ==
    LET x == f.xs[f.b]
        y == f.ys[f.b]
        trace == jit_trace(f.trace, x, y)
    IN  [f EXCEPT !.state = step(f.i, f.state, trace),
                  !.trace = trace,
                  !.b = @ + 1,
                  !.fx.update = @ + 1]

\* `if steps_per_print:` and `(i + 1) % steps_per_print == 0`
PrintDue(steps_per_print, i) ==
    /\ steps_per_print # None
    /\ steps_per_print[1] # 0
    /\ (i + 1) % steps_per_print[1] = 0

\* lines 267-285, after the inner loop of epoch i: when the epoch is due, log
\* the training loss and the holdout loss and dump the parameters; then the
\* next epoch starts
fit_epoch_end(args, f) ==
    LET params == get_params(f.state)
        train == avg_loss(args.sequences, params)
        hold == avg_loss(args.holdout_seqs[1], params)
        line(kind, l) == [epoch |-> f.i + 1, kind |-> kind, value |-> l.value]
    IN  IF ~PrintDue(args.steps_per_print, f.i)
        THEN [f EXCEPT !.i = @ + 1, !.b = 1]
        ELSE IF train.raised # "none"
        THEN [FitRaise(f, train.raised) EXCEPT !.fx.loss = @ + 1]
        ELSE IF args.holdout_seqs # None /\ hold.raised # "none"
        THEN [FitRaise(f, hold.raised) EXCEPT
                 !.logged = Append(@, line("train-loss", train)),
                 !.fx.loss = @ + 2]
        ELSE [f EXCEPT
                 !.logged = @ \o <<line("train-loss", train)>>
                            \o (IF args.holdout_seqs # None
                                THEN <<line("holdout-loss", hold)>> ELSE <<>>),
                 !.dumps = Append(@, [params |-> params, proj_name |-> args.proj_name,
                                      epoch |-> f.i + 1]),
                 !.fx.loss = @ + (IF args.holdout_seqs # None THEN 2 ELSE 1),
                 !.fx.dump = @ + 1,
                 !.i = @ + 1, !.b = 1]

\* line 287: return get_params(state)
fit_return(args, f) == [f EXCEPT !.pc = "returned", !.result = Some(get_params(f.state))]

\* where the invocation is in `for i in range(n): for x, y in zip(xs, ys)`
InInnerLoop(args, f) == f.pc = "loop" /\ f.i < args.n /\ f.b <= Len(f.xs)
AtEpochEnd(args, f) == f.pc = "loop" /\ f.i < args.n /\ f.b > Len(f.xs)
LoopOver(args, f) == f.pc = "loop" /\ f.i >= args.n

\* the next part of fit's body; an invocation that has ended stays as it is
fit_next(args, f) ==
    IF f.pc = "check" THEN fit_check(args, f)
    ELSE IF f.pc = "batch" THEN fit_batch(args, f)
    ELSE IF InInnerLoop(args, f) THEN fit_step(args, f)
    ELSE IF AtEpochEnd(args, f) THEN fit_epoch_end(args, f)
    ELSE IF LoopOver(args, f) THEN fit_return(args, f)
    ELSE f

\* k parts of fit's body, one after the other
RECURSIVE FitRun(_, _, _)
FitRun(args, f, k) ==
    IF k = 0 \/ f.pc \in {"returned", "raised"} THEN f
    ELSE IF k = 1 THEN fit_next(args, f)
    ELSE FitRun(args, FitRun(args, f, k \div 2), k - (k \div 2))

\* fit(params, sequences, n, ...), from its entry to its end: the check, the
\* batching, n epochs of at most len(sequences) updates and an epoch end
\* each, and the return
fit(args) == FitRun(args, FitStart, 3 + args.n * (Len(args.sequences) + 1))

---------------------------------------------------------------------------
(* The user calls fit: one action for each part of its body *)

\* the invocation moves to f; its end is the end of the user's call
FitMoves(f) ==
    /\ fitLoc' = f
    /\ pc' = IF f.pc = "raised" THEN "raised"
             ELSE IF f.pc = "returned" THEN "done" ELSE pc
    /\ exc' = f.exc
    /\ ret' = f.result
    /\ UNCHANGED <<api, fitArgs, objLoc, evoLoc, fitLog, fnArgs>>

FitCheck == pc = "fit" /\ fitLoc.pc = "check" /\ FitMoves(fit_check(fitArgs, fitLoc))

FitBatch == pc = "fit" /\ fitLoc.pc = "batch" /\ FitMoves(fit_batch(fitArgs, fitLoc))

FitStep == pc = "fit" /\ InInnerLoop(fitArgs, fitLoc) /\ FitMoves(fit_step(fitArgs, fitLoc))

FitEpochEnd ==
    pc = "fit" /\ AtEpochEnd(fitArgs, fitLoc) /\ FitMoves(fit_epoch_end(fitArgs, fitLoc))

FitReturn == pc = "fit" /\ LoopOver(fitArgs, fitLoc) /\ FitMoves(fit_return(fitArgs, fitLoc))

\* a custom parameter set: well formed, one leaf short, or with a first leaf
\* of the wrong shape
CustomParams(leaves, cellOK) ==
    [leaves |-> leaves, cellOK |-> cellOK, base |-> "custom", hist |-> <<>>]

ParamChoices == {None, Some(CustomParams(NumLayers, TRUE)),
                 Some(CustomParams(NumLayers - 1, TRUE)),
                 Some(CustomParams(NumLayers, FALSE))}

\* corpora of 1..k sequences
Corpora(k) == UNION {[1..m -> Proteins({"A"})] : m \in 1..k}

HoldoutChoices == {None} \cup {Some(c) : c \in {<<>>} \cup Corpora(1)}

ProjNames == {"temp", "proj"}

StepsPerPrintChoices == {None} \cup {Some(k) : k \in {DefaultStepsPerPrint} \cup 0..2}

FitArgChoices ==
    [params : ParamChoices, sequences : Corpora(MaxSeqs), n : 0..MaxEpochs,
     step_size : {1}, holdout_seqs : HoldoutChoices, proj_name : ProjNames,
     steps_per_print : StepsPerPrintChoices, caller : {"user"}]

InitFit ==
    /\ api = [fn |-> "fit", calls |-> 1, first |-> None]
    /\ pc = "fit"
    /\ fitArgs \in FitArgChoices
    /\ fitLoc = FitStart
    /\ objLoc = None
    /\ evoLoc = None
    /\ fitLog = <<>>
    /\ fnArgs = None
    /\ ret = None
    /\ exc = "none"

\* the user calls fit a second time, with the same params, sequences, n and
\* step_size and any holdout_seqs, proj_name and steps_per_print; the first
\* call's result is kept in api.first
FitAgain ==
    /\ pc = "done"
    /\ api.fn = "fit"
    /\ api.calls = 1
    /\ \E h \in HoldoutChoices, p \in ProjNames, s \in StepsPerPrintChoices :
          fitArgs' = [fitArgs EXCEPT !.holdout_seqs = h, !.proj_name = p,
                                     !.steps_per_print = s]
    /\ api' = [api EXCEPT !.calls = 2, !.first = ret]
    /\ pc' = "fit"
    /\ fitLoc' = FitStart
    /\ ret' = None
    /\ UNCHANGED <<objLoc, evoLoc, fitLog, fnArgs, exc>>

NextFit == FitCheck \/ FitBatch \/ FitStep \/ FitEpochEnd \/ FitReturn \/ FitAgain

SpecFit == InitFit /\ [][NextFit]_vars

---------------------------------------------------------------------------
(* Properties of fit *)

\* the invocation has passed its checks and built its optimizer
Running == fitLoc.fx.init = 1

\* the updates applied so far
CurHist == get_params(fitLoc.state).hist

NumBuckets == Len(fitLoc.xs)

\* C1: in every epoch each length bucket gets exactly one optimizer update,
\* in the same bucket order, and the update's gradient is taken on that
\* bucket's own (x, y); on return n * B updates have been applied.
C1_UpdateOnOwnBucket ==
    (Running /\ fitLoc.pc \in {"loop", "returned"}) =>
        /\ Len(CurHist) = fitLoc.i * NumBuckets + (fitLoc.b - 1)
        /\ fitLoc.fx.update = Len(CurHist)
        /\ \A k \in 1..Len(CurHist) :
              LET bucket == ((k - 1) % NumBuckets) + 1
              IN  /\ CurHist[k].x = fitLoc.xs[bucket]
                  /\ CurHist[k].y = fitLoc.ys[bucket]
        /\ (fitLoc.pc = "returned" => Len(CurHist) = fitArgs.n * NumBuckets)

\* C2: the step number handed to the optimizer is strictly greater at each
\* update than at the one before, across buckets and across epochs.
C2_StepStrictlyIncreasing ==
    Running =>
        \A k \in 1..(Len(CurHist) - 1) : CurHist[k].i < CurHist[k + 1].i

\* s divides e
Divides(s, e) == \E q \in 0..e : s * q = e

\* the epochs, among the first `epochs` of n, after which a checkpoint is due
DueEpochs(steps_per_print, epochs) ==
    {e \in 1..epochs : steps_per_print # None /\ Divides(steps_per_print[1], e)}

\* the checkpoints D written by an invocation with arguments args are those
\* of the due epochs among its first `epochs`, in order, each holding the
\* parameters as they were after that epoch's last update (the first
\* epoch * B updates of hist applied to params) and tagged (proj_name, epoch)
CheckpointsAre(D, args, epochs, params, hist, B) ==
    /\ Len(D) = Cardinality(DueEpochs(args.steps_per_print, epochs))
    /\ \A k \in 1..Len(D) :
          /\ D[k].epoch \in DueEpochs(args.steps_per_print, epochs)
          /\ k > 1 => D[k - 1].epoch < D[k].epoch
          /\ D[k].proj_name = args.proj_name
          /\ D[k].params = [params EXCEPT !.hist = SubSeq(hist, 1, D[k].epoch * B)]

\* C3: once fit has ended, a checkpoint has been written for an epoch e whose
\* bucket updates were all applied if and only if steps_per_print divides e
\* (never when steps_per_print is None); it holds the parameters current
\* after that epoch's updates and is tagged with proj_name and e.
C3_CheckpointIffDue ==
    (Running /\ fitLoc.pc \in {"returned", "raised"}) =>
        CheckpointsAre(fitLoc.dumps, fitArgs, Len(CurHist) \div NumBuckets,
                       fitLoc.params, CurHist, NumBuckets)

\* C3, for the epochs fit has got past without raising
CheckpointsOfPassedEpochs ==
    (Running /\ fitLoc.pc \in {"loop", "returned"}) =>
        CheckpointsAre(fitLoc.dumps, fitArgs, fitLoc.i, fitLoc.params, CurHist, NumBuckets)

\* C4: a fit whose parameters have the wrong number of leaves, or a first
\* leaf of the wrong shape, raises ValueError and batches nothing, builds no
\* optimizer, applies no update, evaluates no loss and dumps nothing.
C4_InvalidParamsNoComputation ==
    (/\ fitArgs.params # None
     /\ \/ fitArgs.params[1].leaves # NumLayers
        \/ ~fitArgs.params[1].cellOK)
    => /\ fitLoc.pc \in {"check", "raised"}
       /\ fitLoc.pc = "raised" => (pc = "raised" /\ exc = "ValueError")
       /\ fitLoc.fx = NoEffects
       /\ fitLoc.dumps = <<>>
       /\ fitLoc.logged = <<>>

C4_Witness ==
    /\ pc = "raised"
    /\ exc = "ValueError"
    /\ fitArgs.params # None
    /\ fitArgs.params[1].leaves = NumLayers
    /\ ~fitArgs.params[1].cellOK

\* C9: a second fit with the same params, sequences, n and step_size, and any
\* holdout_seqs, proj_name and steps_per_print, ends as the first did: it
\* returns, and returns the same parameters (the same updates in the same
\* order).
C9_SameOutcomeWhateverObserved ==
    (api.calls = 2 /\ pc \in {"done", "raised"}) =>
        (pc = "done" /\ ret = api.first)

\* C9, for a second fit that returns
SameResultWhenReturned ==
    (api.calls = 2 /\ pc = "done") => ret = api.first

---------------------------------------------------------------------------
(* objective *)

\* trial.suggest_discrete_uniform(low, high, q): low, low + q, ... up to high
SuggestDiscreteUniform(kwargs) ==
    {v \in kwargs.low..kwargs.high : (v - kwargs.low) % kwargs.q = 0}

\* trial.suggest_loguniform(low, high): learning rates are labelled by their
\* place on a grid, the default range [0.00001, 0.01] being the labels 1..2
SuggestLogUniform(kwargs) == kwargs.low..kwargs.high

\* lines 376-393: the default search ranges, updated with the caller's
n_epochs_kwargs(sequences, n_epochs_config) ==
    IF n_epochs_config # None THEN n_epochs_config[1]
    ELSE [low |-> 1, high |-> Len(sequences) * 3, q |-> 1]

learning_rate_kwargs(learning_rate_config) ==
    IF learning_rate_config # None THEN learning_rate_config[1]
    ELSE [low |-> 1, high |-> 2]

\* KFold(n_splits, shuffle=True).split over N samples, for the shuffled order
\* perm: fold j is tested on the j-th chunk of perm (the first N % n_splits
\* chunks one longer than the others) and trained on the rest; both index
\* lists come out ascending
KFoldSplit(N, n_splits, perm) ==
    LET size(j) == (N \div n_splits) + (IF j <= N % n_splits THEN 1 ELSE 0)
        start(j) == (j - 1) * (N \div n_splits)
                    + (IF j - 1 <= N % n_splits THEN j - 1 ELSE N % n_splits)
        test(j) == {perm[t] : t \in (start(j) + 1)..(start(j) + size(j))}
    IN  [j \in 1..n_splits |->
            [train_index |-> SortedSeq((1..N) \ test(j)),
             test_index |-> SortedSeq(test(j))]]

\* sequences[index]
Take(sequences, index) == [k \in 1..Len(index) |-> sequences[index[k]]]

\* the locals of objective at its entry
ObjectiveStart(args, caller) ==
    [sequences |-> args.sequences, params |-> args.params,
     n_epochs_config |-> args.n_epochs_config,
     learning_rate_config |-> args.learning_rate_config,
     n_splits |-> args.n_splits, caller |-> caller,
     n_epochs |-> 0, learning_rate |-> 0, folds |-> <<>>, fold |-> 0,
     avg_test_losses |-> <<>>, evotuned_params |-> None,
     firstFit |-> Len(fitLog) + 1]

\* an exception reaches the user
Raise(e) == pc' = "raised" /\ exc' = e

\* what the history keeps of a fit invocation that has ended
FitRecord(args, f) ==
    [args |-> args, pc |-> f.pc, exc |-> f.exc, result |-> f.result,
     dumps |-> f.dumps, fx |-> f.fx]

\* lines 395-399: the trial proposes n_epochs and learning_rate
ObjSuggest ==
    /\ pc = "objective"
    /\ \E n_epochs \in SuggestDiscreteUniform(
                          n_epochs_kwargs(objLoc.sequences, objLoc.n_epochs_config)),
          learning_rate \in SuggestLogUniform(
                          learning_rate_kwargs(objLoc.learning_rate_config)) :
          objLoc' = [objLoc EXCEPT !.n_epochs = n_epochs,
                                   !.learning_rate = learning_rate]
    /\ pc' = "obj_split"
    /\ UNCHANGED <<api, fitArgs, fitLoc, evoLoc, fitLog, fnArgs, ret, exc>>

\* lines 401-405: the shuffled k-fold split; KFold refuses more folds than
\* samples
ObjSplit ==
    /\ pc = "obj_split"
    /\ IF objLoc.n_splits > Len(objLoc.sequences)
       THEN /\ Raise("ValueError")
            /\ UNCHANGED objLoc
       ELSE /\ \E perm \in Permutations(1..Len(objLoc.sequences)) :
                  objLoc' = [objLoc EXCEPT
                      !.folds = KFoldSplit(Len(objLoc.sequences), objLoc.n_splits, perm),
                      !.fold = 1]
            /\ pc' = "obj_fold"
            /\ UNCHANGED exc
    /\ UNCHANGED <<api, fitArgs, fitLoc, evoLoc, fitLog, fnArgs, ret>>

\* objective switching fit's checkpoints off: a variant that C10 must tell
\* from the code
ObjectiveFitArgs_NoCheckpoint(params, train_sequences, n_epochs, learning_rate) ==
    [params |-> params, sequences |-> train_sequences, n |-> n_epochs,
     step_size |-> learning_rate, holdout_seqs |-> None, proj_name |-> "temp",
     steps_per_print |-> None, caller |-> "objective"]

\* lines 412-414: the arguments objective gives fit for one fold; the rest
\* are fit's defaults (lines 168-170)
ObjectiveFitArgs(params, train_sequences, n_epochs, learning_rate) ==
    [params |-> params, sequences |-> train_sequences, n |-> n_epochs,
     step_size |-> learning_rate, holdout_seqs |-> None, proj_name |-> "temp",
     steps_per_print |-> Some(DefaultStepsPerPrint), caller |-> "objective"]

\* lines 405-414: the next fold's fit, from its entry to its end
ObjFold ==
    /\ pc = "obj_fold"
    /\ objLoc.fold <= Len(objLoc.folds)
    /\ LET args == ObjectiveFitArgs(objLoc.params,
                      Take(objLoc.sequences, objLoc.folds[objLoc.fold].train_index),
                      objLoc.n_epochs, objLoc.learning_rate)
       IN  \E f \in {fit(args)} :
              /\ fitLog' = Append(fitLog, FitRecord(args, f))
              /\ IF f.pc = "raised"
                 THEN /\ Raise(f.exc)
                      /\ UNCHANGED objLoc
                 ELSE /\ objLoc' = [objLoc EXCEPT !.evotuned_params = f.result]
                      /\ pc' = "obj_loss"
                      /\ UNCHANGED exc
    /\ UNCHANGED <<api, fitArgs, fitLoc, evoLoc, fnArgs, ret>>

\* line 416: the loss of the fold's fitted parameters on its held-out part
ObjLoss ==
    /\ pc = "obj_loss"
    /\ LET test_sequences == Take(objLoc.sequences, objLoc.folds[objLoc.fold].test_index)
           l == avg_loss(test_sequences, objLoc.evotuned_params[1])
       IN  IF l.raised # "none"
           THEN /\ Raise(l.raised)
                /\ UNCHANGED objLoc
           ELSE /\ objLoc' = [objLoc EXCEPT !.avg_test_losses = Append(@, l.value),
                                           !.fold = @ + 1]
                /\ pc' = "obj_fold"
                /\ UNCHANGED exc
    /\ UNCHANGED <<api, fitArgs, fitLoc, evoLoc, fitLog, fnArgs, ret>>

\* the sum of the fold losses, not divided: a variant that C5 must tell from
\* the code
MeanLoss_Sum(avg_test_losses) == RatSum(avg_test_losses)

\* line 418: sum(avg_test_losses) / len(avg_test_losses)
MeanLoss(avg_test_losses) == RatDivInt(RatSum(avg_test_losses), Len(avg_test_losses))

\* line 418, and the study recording the trial when evotune is the caller
ObjReturn ==
    /\ pc = "obj_fold"
    /\ objLoc.fold > Len(objLoc.folds)
    /\ LET value == MeanLoss(objLoc.avg_test_losses)
       IN  IF objLoc.caller = "evotune"
           THEN /\ pc' = "evotune"
                /\ evoLoc' = [evoLoc EXCEPT !.study = Append(@,
                                 [n_epochs |-> objLoc.n_epochs,
                                  learning_rate |-> objLoc.learning_rate,
                                  value |-> value])]
                /\ UNCHANGED ret
           ELSE /\ pc' = "done"
                /\ ret' = Some(value)
                /\ UNCHANGED evoLoc
    /\ UNCHANGED <<api, fitArgs, fitLoc, objLoc, fitLog, fnArgs, exc>>

---------------------------------------------------------------------------
(* evotune *)

\* line 511: study.optimize runs the next trial
EvoTrial ==
    /\ pc = "evotune"
    /\ Len(evoLoc.study) < evoLoc.n_trials
    /\ objLoc' = ObjectiveStart(evoLoc, "evotune")
    /\ pc' = "objective"
    /\ UNCHANGED <<api, fitArgs, fitLoc, evoLoc, fitLog, fnArgs, ret, exc>>

\* study.best_params: a trial of minimum value
BestTrials(study) ==
    {t \in 1..Len(study) : \A u \in 1..Len(study) : RatLeq(study[t].value, study[u].value)}

\* the final fit trained at a fixed learning rate, not the best trial's: a
\* variant that C6 must tell from the code
EvotuneFitArgs_FixedRate(args, num_epochs, learning_rate) ==
    [params |-> args.params, sequences |-> args.sequences, n |-> num_epochs,
     step_size |-> 0, holdout_seqs |-> args.out_dom_seqs,
     proj_name |-> args.proj_name, steps_per_print |-> args.steps_per_print,
     caller |-> "evotune"]

\* lines 519-527: the arguments of the final fit
EvotuneFitArgs(args, num_epochs, learning_rate) ==
    [params |-> args.params, sequences |-> args.sequences, n |-> num_epochs,
     step_size |-> learning_rate, holdout_seqs |-> args.out_dom_seqs,
     proj_name |-> args.proj_name, steps_per_print |-> args.steps_per_print,
     caller |-> "evotune"]

\* lines 512-527: the trials are over; fit, from its entry to its end, on all
\* sequences with the best trial's n_epochs and learning_rate
EvoFinalFit ==
    /\ pc = "evotune"
    /\ Len(evoLoc.study) >= evoLoc.n_trials
    /\ \E t \in BestTrials(evoLoc.study) :
          LET args == EvotuneFitArgs(evoLoc, evoLoc.study[t].n_epochs,
                                     evoLoc.study[t].learning_rate)
          IN  \E f \in {fit(args)} :
              /\ fitLog' = Append(fitLog, FitRecord(args, f))
              /\ IF f.pc = "raised"
                 THEN /\ Raise(f.exc)
                      /\ UNCHANGED evoLoc
                 ELSE /\ evoLoc' = [evoLoc EXCEPT !.evotuned_params = f.result]
                      /\ pc' = "evo_return"
                      /\ UNCHANGED exc
    /\ UNCHANGED <<api, fitArgs, fitLoc, objLoc, fnArgs, ret>>

\* line 529: return study, evotuned_params
EvoReturn ==
    /\ pc = "evo_return"
    /\ ret' = Some([study |-> evoLoc.study, evotuned_params |-> evoLoc.evotuned_params[1]])
    /\ pc' = "done"
    /\ UNCHANGED <<api, fitArgs, fitLoc, objLoc, evoLoc, fitLog, fnArgs, exc>>

---------------------------------------------------------------------------
(* The user calls objective or evotune *)

\* most sequences in a corpus that is cross-validated
MaxCorpus == 2
\* most folds asked for
MaxSplits == 3
\* most trials asked for
MaxTrials == 2

\* corpora of 2..k sequences
CVCorpora(k) == UNION {[1..m -> Proteins({"A"})] : m \in 2..k}

\* a search over long runs: a trial trains for 200 or for 2 * 200 epochs
LongEpochs == [low |-> DefaultStepsPerPrint, high |-> 2 * DefaultStepsPerPrint,
               q |-> DefaultStepsPerPrint]

EpochConfigChoices == {None, Some(LongEpochs)}

RateConfigChoices == {None, Some([low |-> 2, high |-> 2])}

CVParamChoices == {None, Some(CustomParams(NumLayers, FALSE))}

\* a search uses the default ranges, or long runs at one learning rate
SearchChoices ==
    {[n_epochs_config |-> None, learning_rate_config |-> None],
     [n_epochs_config |-> Some(LongEpochs),
      learning_rate_config |-> Some([low |-> 2, high |-> 2])]}

ObjectiveArgChoices ==
    {a \in [sequences : CVCorpora(MaxCorpus), params : CVParamChoices,
            n_epochs_config : EpochConfigChoices,
            learning_rate_config : RateConfigChoices, n_splits : 2..MaxSplits] :
        [n_epochs_config |-> a.n_epochs_config,
         learning_rate_config |-> a.learning_rate_config] \in SearchChoices}

InitObjective ==
    /\ api = [fn |-> "objective", calls |-> 1, first |-> None]
    /\ pc = "objective"
    /\ fitLog = <<>>
    /\ \E args \in ObjectiveArgChoices : objLoc = ObjectiveStart(args, "user")
    /\ fitArgs = None
    /\ fitLoc = None
    /\ evoLoc = None
    /\ fnArgs = None
    /\ ret = None
    /\ exc = "none"

NextObjective == ObjSuggest \/ ObjSplit \/ ObjFold \/ ObjLoss \/ ObjReturn

SpecObjective == InitObjective /\ [][NextObjective]_vars

\* C5: objective calls fit exactly n_splits times, once per fold, each time
\* with the params objective was given, the fold's training sequences and the
\* trial's (n_epochs, learning_rate); the loss of fold j is avg_loss of its
\* held-out sequences under the parameters its fit returned; objective
\* returns the arithmetic mean of the n_splits fold losses.
C5_ObjectiveCrossValidates ==
    api.fn = "objective" =>
        /\ Len(fitLog) <= objLoc.n_splits
        /\ \A j \in 1..Len(fitLog) :
              LET a == fitLog[j].args
                  heldout == {objLoc.folds[j].test_index[k] :
                                 k \in 1..Len(objLoc.folds[j].test_index)}
              IN  /\ a.params = objLoc.params
                  /\ a.n = objLoc.n_epochs
                  /\ a.step_size = objLoc.learning_rate
                  /\ a.sequences =
                        Take(objLoc.sequences,
                             SortedSeq((1..Len(objLoc.sequences)) \ heldout))
                  /\ \A h \in 1..Len(fitLog) :
                        h # j => \A k \in 1..Len(objLoc.folds[h].test_index) :
                                    objLoc.folds[h].test_index[k] \notin heldout
        /\ \A j \in 1..Len(objLoc.avg_test_losses) :
              objLoc.avg_test_losses[j] =
                  avg_loss(Take(objLoc.sequences, objLoc.folds[j].test_index),
                           fitLog[j].result[1]).value
        /\ pc = "done" =>
              /\ Len(fitLog) = objLoc.n_splits
              /\ Len(objLoc.avg_test_losses) = objLoc.n_splits
              /\ ret[1] = Rat(RatSum(objLoc.avg_test_losses).num,
                              RatSum(objLoc.avg_test_losses).den * objLoc.n_splits)

\* objective has returned the mean of two fold losses that differ
C5_Witness ==
    /\ api.fn = "objective"
    /\ pc = "done"
    /\ Len(fitLog) = 2
    /\ objLoc.avg_test_losses[1] # objLoc.avg_test_losses[2]
    /\ fitLog[1].args.sequences # fitLog[2].args.sequences

\* the checkpoint intervals evotune is given
EvotunePrintChoices == {None, Some(1), Some(DefaultStepsPerPrint \div 2)}

EvotuneHoldoutChoices == {None, Some(<<>>), Some(<<<<"A", "A">>>>)}

\* a search over long runs is made with one trial, no out-of-domain set and
\* no checkpoint at every epoch
EvotuneArgChoices ==
    {a \in [sequences : CVCorpora(MaxCorpus), params : CVParamChoices,
            proj_name : ProjNames, out_dom_seqs : EvotuneHoldoutChoices,
            n_trials : 1..MaxTrials,
            n_epochs_config : EpochConfigChoices,
            learning_rate_config : RateConfigChoices,
            n_splits : 2..MaxSplits, steps_per_print : EvotunePrintChoices,
            study : {<<>>}, evotuned_params : {None}] :
        /\ [n_epochs_config |-> a.n_epochs_config,
            learning_rate_config |-> a.learning_rate_config] \in SearchChoices
        /\ a.n_epochs_config # None =>
              /\ a.n_trials = 1
              /\ a.out_dom_seqs = None
              /\ a.steps_per_print # Some(1)}

InitEvotune ==
    /\ api = [fn |-> "evotune", calls |-> 1, first |-> None]
    /\ pc = "evotune"
    /\ evoLoc \in EvotuneArgChoices
    /\ fitArgs = None
    /\ fitLoc = None
    /\ objLoc = None
    /\ fitLog = <<>>
    /\ fnArgs = None
    /\ ret = None
    /\ exc = "none"

NextEvotune ==
    \/ EvoTrial \/ EvoFinalFit \/ EvoReturn
    \/ ObjSuggest \/ ObjSplit \/ ObjFold \/ ObjLoss \/ ObjReturn

SpecEvotune == InitEvotune /\ [][NextEvotune]_vars

\* the fit invocations made so far by `caller`
FitsBy(caller) == {j \in 1..Len(fitLog) : fitLog[j].args.caller = caller}

\* C6: evotune runs n_trials trials; it calls fit itself only after the last
\* of them, once, on all the sequences and with the n_epochs and
\* learning_rate of a trial of minimum value; it returns the study and the
\* parameters that fit returned.
C6_FinalFitOnBestTrial ==
    api.fn = "evotune" =>
        /\ Len(evoLoc.study) <= evoLoc.n_trials
        /\ \A j \in FitsBy("evotune") :
              /\ j = Len(fitLog)
              /\ Len(evoLoc.study) = evoLoc.n_trials
              /\ Cardinality(FitsBy("objective")) = evoLoc.n_trials * evoLoc.n_splits
              /\ fitLog[j].args.sequences = evoLoc.sequences
              /\ fitLog[j].args.params = evoLoc.params
              /\ \E t \in 1..Len(evoLoc.study) :
                    /\ \A u \in 1..Len(evoLoc.study) :
                          RatLeq(evoLoc.study[t].value, evoLoc.study[u].value)
                    /\ fitLog[j].args.n = evoLoc.study[t].n_epochs
                    /\ fitLog[j].args.step_size = evoLoc.study[t].learning_rate
        /\ pc = "done" =>
              /\ Cardinality(FitsBy("evotune")) = 1
              /\ Len(ret[1].study) = evoLoc.n_trials
              /\ ret[1].study = evoLoc.study
              /\ ret[1].evotuned_params = fitLog[Len(fitLog)].result[1]

\* evotune has returned after two trials of different values, the second
\* trained at another learning rate than the first and the better of the two
C6_Witness ==
    /\ api.fn = "evotune"
    /\ pc = "done"
    /\ Len(evoLoc.study) = 2
    /\ evoLoc.study[2].learning_rate # evoLoc.study[1].learning_rate
    /\ ~RatLeq(evoLoc.study[1].value, evoLoc.study[2].value)
    /\ fitLog[Len(fitLog)].args.n = evoLoc.study[2].n_epochs

\* C10: every fit called by objective during evotune's search has no holdout
\* set, the tag "temp" and the interval 200, whatever proj_name,
\* steps_per_print and out_dom_seqs evotune was given, and once it has
\* returned it has written its checkpoints at the epochs 200, 400, ... up to
\* its epoch count, all tagged "temp" (none when the count is below 200);
\* evotune's own three arguments are those of the final fit.
C10_SearchFitsUseDefaults ==
    api.fn = "evotune" =>
        /\ \A j \in FitsBy("objective") :
              LET r == fitLog[j]
              IN  /\ r.args.holdout_seqs = None
                  /\ r.args.proj_name = "temp"
                  /\ r.args.steps_per_print = Some(DefaultStepsPerPrint)
                  /\ r.pc = "returned" =>
                        /\ Len(r.dumps) = r.args.n \div DefaultStepsPerPrint
                        /\ r.args.n < DefaultStepsPerPrint => r.dumps = <<>>
                        /\ \A k \in 1..Len(r.dumps) :
                              /\ r.dumps[k].epoch = k * DefaultStepsPerPrint
                              /\ r.dumps[k].proj_name = "temp"
        /\ \A j \in FitsBy("evotune") :
              /\ fitLog[j].args.holdout_seqs = evoLoc.out_dom_seqs
              /\ fitLog[j].args.proj_name = evoLoc.proj_name
              /\ fitLog[j].args.steps_per_print = evoLoc.steps_per_print

\* evotune was given another tag and another interval, and a fit of its
\* search has run for 400 epochs and written two checkpoints
C10_Witness ==
    /\ api.fn = "evotune"
    /\ evoLoc.proj_name = "proj"
    /\ evoLoc.steps_per_print = Some(DefaultStepsPerPrint \div 2)
    /\ \E j \in FitsBy("objective") :
          /\ fitLog[j].args.n = 2 * DefaultStepsPerPrint
          /\ Len(fitLog[j].dumps) = 2
    /\ \E j \in FitsBy("evotune") : fitLog[j].dumps # <<>>

---------------------------------------------------------------------------
(* The user calls avg_loss or input_output_pairs *)

\* lists of 0..k sequences over the symbols in alpha
SequenceLists(k, alpha) == UNION {[1..m -> Proteins(alpha)] : m \in 0..k}

\* the parameters avg_loss is given: the paper's, custom ones, or the
\* paper's after one update
LossParamChoices ==
    {PaperParams, CustomParams(NumLayers, TRUE),
     get_params(adamW_update(0, input_output_pairs(<<<<"A", "C">>>>),
                             adamW_init(PaperParams, 1)))}

\* avg_loss is given corpora that differ in the number and the lengths of
\* their sequences, input_output_pairs lists that differ in the symbols too
InitCall ==
    /\ pc = "call"
    /\ \/ /\ api = [fn |-> "avg_loss", calls |-> 1, first |-> None]
          /\ fnArgs \in [sequences : SequenceLists(MaxBatch, {"A"}),
                         params : LossParamChoices, encoded : {0}]
       \/ /\ api = [fn |-> "input_output_pairs", calls |-> 1, first |-> None]
          /\ fnArgs \in [sequences : SequenceLists(MaxBatch, Alphabet),
                         params : {PaperParams}, encoded : {0}]
    /\ fitArgs = None
    /\ fitLoc = None
    /\ objLoc = None
    /\ evoLoc = None
    /\ fitLog = <<>>
    /\ ret = None
    /\ exc = "none"

\* avg_loss(sequences, params)
AvgLoss ==
    /\ pc = "call"
    /\ api.fn = "avg_loss"
    /\ \E l \in {avg_loss(fnArgs.sequences, fnArgs.params)} :
          /\ pc' = IF l.raised # "none" THEN "raised" ELSE "done"
          /\ exc' = l.raised
          /\ ret' = IF l.raised # "none" THEN None ELSE Some(l.value)
    /\ UNCHANGED <<api, fitArgs, fitLoc, objLoc, evoLoc, fitLog, fnArgs>>

\* input_output_pairs(sequences); fnArgs.encoded becomes the number of
\* sequences the call encoded
InputOutputPairs ==
    /\ pc = "call"
    /\ api.fn = "input_output_pairs"
    /\ \E r \in {input_output_pairs(fnArgs.sequences)} :
          /\ pc' = IF r.raised # "none" THEN "raised" ELSE "done"
          /\ exc' = r.raised
          /\ ret' = IF r.raised # "none" THEN None ELSE Some([x |-> r.x, y |-> r.y])
          /\ fnArgs' = [fnArgs EXCEPT !.encoded = r.encoded]
    /\ UNCHANGED <<api, fitArgs, fitLoc, objLoc, evoLoc, fitLog>>

NextCall == AvgLoss \/ InputOutputPairs

SpecCall == InitCall /\ [][NextCall]_vars

\* the sequences of S that have length L, in their order in S
Bucket(S, L) == SelectSeq(S, LAMBDA s : Len(s) = L)

\* the loss of one bucket
BucketLoss(params, bucket) ==
    evotune_loss(params, [k \in 1..Len(bucket) |-> evotuning_pairs(bucket[k]).x],
                         [k \in 1..Len(bucket) |-> evotuning_pairs(bucket[k]).y])

\* the sum, over the lengths in Ls, of loss(bucket) * |bucket|
RECURSIVE WeightedLoss(_, _, _)
WeightedLoss(params, S, Ls) ==
    IF Ls = {} THEN 0
    ELSE LET L == CHOOSE l \in Ls : TRUE
         IN  BucketLoss(params, Bucket(S, L)) * Len(Bucket(S, L))
             + WeightedLoss(params, S, Ls \ {L})

\* the sum of the sizes of the first k batches
RECURSIVE BatchSizes(_, _)
BatchSizes(xs, k) == IF k = 0 THEN 0 ELSE BatchSizes(xs, k - 1) + Len(xs[k])

\* C7: for a corpus S and parameters params, avg_loss(S, params) is the sum
\* over the length buckets of S of loss(bucket) * |bucket|, divided by |S|,
\* and the sizes of the batches avg_loss sums over add up to |S|.
C7_WeightedAverage ==
    (api.fn = "avg_loss" /\ pc # "call" /\ fnArgs.sequences # <<>>) =>
        LET S == fnArgs.sequences
            lengths == {Len(S[k]) : k \in 1..Len(S)}
            xs == length_batch_input_outputs(S).xs
            total == WeightedLoss(fnArgs.params, S, lengths)
        IN  /\ pc = "done"
            /\ ret[1].num * Len(S) = total * ret[1].den
            /\ ret[1] = Rat(total, Len(S))
            /\ BatchSizes(xs, Len(xs)) = Len(S)

\* avg_loss has returned for a corpus with a bucket of two sequences and a
\* bucket of one, whose losses differ
C7_Witness ==
    /\ api.fn = "avg_loss"
    /\ pc = "done"
    /\ Len(fnArgs.sequences) = 3
    /\ Len(Bucket(fnArgs.sequences, 2)) = 2
    /\ Len(Bucket(fnArgs.sequences, 3)) = 1
    /\ BucketLoss(fnArgs.params, Bucket(fnArgs.sequences, 2))
          # BucketLoss(fnArgs.params, Bucket(fnArgs.sequences, 3))

\* C8: input_output_pairs raises ValueError, having encoded no sequence, for
\* every list in which two sequences differ in length; for every non-empty
\* list of sequences of one length it returns one input row and one target
\* row per sequence, row k being the encoding of the k-th sequence.
C8_UniformLengthOrError ==
    (api.fn = "input_output_pairs" /\ pc # "call") =>
        LET S == fnArgs.sequences
        IN  /\ (\E j, k \in 1..Len(S) : Len(S[j]) # Len(S[k])) =>
                  /\ pc = "raised"
                  /\ exc = "ValueError"
                  /\ fnArgs.encoded = 0
            /\ (S # <<>> /\ \A j, k \in 1..Len(S) : Len(S[j]) = Len(S[k])) =>
                  /\ pc = "done"
                  /\ Len(ret[1].x) = Len(S)
                  /\ Len(ret[1].y) = Len(S)
                  /\ \A k \in 1..Len(S) :
                        /\ ret[1].x[k] = evotuning_pairs(S[k]).x
                        /\ ret[1].y[k] = evotuning_pairs(S[k]).y

\* input_output_pairs has raised for a list whose last sequence alone is
\* longer than the others
C8_Witness ==
    /\ api.fn = "input_output_pairs"
    /\ pc = "raised"
    /\ Len(fnArgs.sequences) = 3
    /\ Len(fnArgs.sequences[1]) = Len(fnArgs.sequences[2])
    /\ Len(fnArgs.sequences[3]) > Len(fnArgs.sequences[1])

\* input_output_pairs has returned the rows of two different sequences of
\* one length
RowsInOrderReached ==
    /\ api.fn = "input_output_pairs"
    /\ pc = "done"
    /\ Len(fnArgs.sequences) = 2
    /\ fnArgs.sequences[1] # fnArgs.sequences[2]
    /\ ret[1].x[1] # ret[1].x[2]

====
